---- MODULE Spec2Model ----
(***************************************************************************)
(* Model of the travel-planner backend (harshithtc/journey).               *)
(*                                                                         *)
(*   src/app/services/perplexity_service.py  safe_perplexity_call          *)
(*                                            safe_itinerary_call          *)
(*   src/app/models/itinerary_models.py      PlanTripRequest, DayPlan,     *)
(*                                            ItineraryResponse            *)
(*   src/app/main.py                         plan_trip, chat               *)
(*   src/backend/app/main.py                 chat_endpoint, legacy_chat    *)
(*                                                                         *)
(* The specifications of the module:                                       *)
(*   SpecRetry  safe_perplexity_call invoked directly with its parameters  *)
(*   SpecRetryFair  SpecRetry with requests and sleeps that come back      *)
(*   SpecPlan   the /plan_trip endpoint                                    *)
(*   SpecConv   the conversational /chat endpoint of the backend app       *)
(*   SpecChat   the plain chat endpoint, two requests in flight            *)
(*   SpecMerge  one user of the conversational /chat, repeated answers     *)
(* Every handler of the two apps is an `async def` that never yields to    *)
(* the event loop before it returns, so one handler runs at a time.        *)
(***************************************************************************)
EXTENDS Integers, Sequences, FiniteSets, TLC

VARIABLES
    \* ---- safe_perplexity_call (one activation) ----
    rc_pc,        \* "idle" | "attempt" | "sleeping" | "done"
    rc_caller,    \* who invoked it: "none" | "direct" | "conv" | "chat"
    rc_retries,   \* parameter retries
    rc_delay,     \* parameter delay
    rc_attempt,   \* loop variable attempt (zero-based)
    rc_trace,     \* requests sent and sleeps taken, in order
    rc_result,    \* what the call returned or raised
    \* ---- plan_trip ----
    plan_pc,      \* "idle" | "rejected" | "validated" | "called" | "done"
    plan_raw,     \* the request body as posted
    plan_req,     \* the validated PlanTripRequest
    plan_outcome, \* what the external itinerary request produced
    plan_ai,      \* what safe_itinerary_call returned or raised
    plan_result,  \* what plan_trip returned or raised
    it_requests,  \* external itinerary requests sent for this request
    fallbacks,    \* fallback itineraries built for this request
    fallback_memo,\* history: the first fallback response of a short trip
    \* ---- chat_endpoint ----
    chat_state,   \* the module-level dict: user id -> (slot -> answer)
    conv_pc,      \* "idle" | "calling"
    conv_user,    \* user_id of the handler that is running
    conv_last,    \* the response to the last message, once it is sent
    script_log,   \* per user: the responses to the scripted messages so far
    chat_input,   \* history: the answers of the last message received
    asked_run,    \* history: messages in a row that answered the question due
    \* ---- chat (the plain chat endpoint) and the event loop ----
    loop_task,    \* the request whose handler holds the event loop thread
    chat_pc,      \* per request: "none" | "queued" | "running" | "done"
    chat_query,   \* per request: ChatRequest.query as posted
    chat_calls,   \* per request: the arguments of its safe_perplexity_call calls
    chat_ai,      \* per request: what safe_perplexity_call returned or raised
    chat_result   \* per request: what the handler returned or raised

rc_vars   == <<rc_pc, rc_caller, rc_retries, rc_delay, rc_attempt, rc_trace, rc_result>>
plan_vars == <<plan_pc, plan_raw, plan_req, plan_outcome, plan_ai, plan_result,
               it_requests, fallbacks, fallback_memo>>
conv_vars == <<chat_state, conv_pc, conv_user, conv_last, script_log>>
chat_vars == <<loop_task, chat_pc, chat_query, chat_calls, chat_ai, chat_result>>
hist_vars == <<chat_input, asked_run>>
vars      == <<rc_vars, plan_vars, conv_vars, chat_vars, hist_vars>>

\* Python's None: Null where the other values are strings, None where they
\* are records.
Null == "<None>"
None == [none |-> TRUE]

(***************************************************************************)
(* Bounds of the model.                                                    *)
(***************************************************************************)
MaxRetries == 3      \* safe_perplexity_call is invoked with retries in 0..MaxRetries
MaxDelay   == 2      \* ... and delay in 1..MaxDelay

(***************************************************************************)
(* safe_perplexity_call                                                    *)
(***************************************************************************)
DefaultRetries == 3
DefaultDelay   == 2

\* Texts a completion can carry.
Contents == {"c1", "c2"}

\* An error message is a sequence of fragments; `x in error_str` holds when
\* a fragment is x.
Contains(msg, frag) == \E i \in 1..Len(msg) : msg[i] = frag

LowerFrag(f) == IF f = "Rate Limit" THEN "rate limit" ELSE f

Lower(msg) == [i \in 1..Len(msg) |-> LowerFrag(msg[i])]

\* Messages of the exceptions client.chat.completions.create can raise.
ApiErrors ==
    { <<"Error code: ", "429">>,
      <<"Rate Limit", " reached">>,
      <<"rate limit", " exceeded">>,
      <<"Connection error.">> }

\* What one request to the API produces.
\*   raise      create() raises with message msg
\*   nochoices  the response has no choices: choices[0] raises IndexError
\*   content    choices[0].message.content is content (a text or None)
Outcomes ==
    { [k |-> "raise", content |-> Null, msg |-> m] : m \in ApiErrors }
    \cup { [k |-> "nochoices", content |-> Null, msg |-> <<>>] }
    \cup { [k |-> "content", content |-> c, msg |-> <<>>] : c \in Contents \cup {Null} }

\* str(e) of the exception the try block of one attempt ends with, <<>> when
\* the attempt returns: len(None) in the success log line raises TypeError.
AttemptError(o) ==
    CASE o.k = "raise"                          -> o.msg
      [] o.k = "nochoices"                       -> <<"list index out of range">>
      [] o.k = "content" /\ o.content = Null     -> <<"object of type 'NoneType' has no len()">>
      [] OTHER                                   -> <<>>

AttemptReturns(o) == o.k = "content" /\ o.content # Null

IsRateLimit(error_str) ==
    Contains(error_str, "429") \/ Contains(Lower(error_str), "rate limit")

RECURSIVE Pow2(_)
Pow2(n) == IF n <= 0 THEN 1 ELSE 2 * Pow2(n - 1)

WaitTimeMut(delay, attempt) == delay * (2 * attempt)

WaitTime(delay, attempt) == delay * Pow2(attempt)

NoResult == [kind |-> "none", status |-> 0, value |-> ""]
Returned(text) == [kind |-> "return", status |-> 200, value |-> text]
HTTPException(status, detail) == [kind |-> "raise", status |-> status, value |-> detail]

RateLimited        == HTTPException(429, "API rate limit exceeded. Please try again later.")
ServiceUnavailable == HTTPException(500, "External API service temporarily unavailable. Please try again later.")
UnexpectedError    == HTTPException(500, "Unexpected error in API service")

RequestEvent(a, o) == [ev |-> "request", attempt |-> a, outcome |-> o, secs |-> 0]
SleepEvent(a, w)   == [ev |-> "sleep", attempt |-> a, outcome |-> [k |-> "none", content |-> Null, msg |-> <<>>], secs |-> w]

\* Entry: `for attempt in range(retries)`; an empty range falls to the
\* trailing raise.
RCBegin(caller, retries, delay) ==
    /\ rc_caller' = caller
    /\ rc_retries' = retries
    /\ rc_delay' = delay
    /\ rc_attempt' = 0
    /\ rc_trace' = <<>>
    /\ IF retries <= 0
         THEN rc_pc' = "done" /\ rc_result' = UnexpectedError
         ELSE rc_pc' = "attempt" /\ rc_result' = NoResult

BackoffAlwaysMut(attempt, retries) == TRUE

\* `if attempt < retries - 1` under the rate-limit branch: sleep and retry.
Backoff(attempt, retries) == attempt < retries - 1

RateLimitExhaustedMut == ServiceUnavailable

\* The exception of the rate-limit branch once no attempt remains.
RateLimitExhausted == RateLimited

OtherErrorFailFastMut(attempt, retries) == TRUE

OtherErrorFinalMut(attempt, retries) == FALSE

\* `if attempt == retries - 1` of the other-errors branch.
OtherErrorFinal(attempt, retries) == attempt = retries - 1

\* One pass of the loop body: the request, and the except block when the
\* try block raised.
RCAttempt(o) ==
    /\ rc_pc = "attempt"
    /\ LET sent      == Append(rc_trace, RequestEvent(rc_attempt, o))
           error_str == AttemptError(o)
       IN  IF AttemptReturns(o)
             THEN /\ rc_pc' = "done"
                  /\ rc_result' = Returned(o.content)
                  /\ rc_trace' = sent
                  /\ UNCHANGED rc_attempt
             ELSE IF IsRateLimit(error_str)
               THEN IF Backoff(rc_attempt, rc_retries)
                      THEN /\ rc_pc' = "sleeping"
                           /\ rc_trace' = Append(sent, SleepEvent(rc_attempt, WaitTime(rc_delay, rc_attempt)))
                           /\ UNCHANGED <<rc_attempt, rc_result>>
                      ELSE /\ rc_pc' = "done"
                           /\ rc_result' = RateLimitExhausted
                           /\ rc_trace' = sent
                           /\ UNCHANGED rc_attempt
               ELSE IF OtherErrorFinal(rc_attempt, rc_retries)
                      THEN /\ rc_pc' = "done"
                           /\ rc_result' = ServiceUnavailable
                           /\ rc_trace' = sent
                           /\ UNCHANGED rc_attempt
                      ELSE \* falls off the end of the loop body
                           /\ rc_trace' = sent
                           /\ rc_attempt' = rc_attempt + 1
                           /\ IF rc_attempt + 1 < rc_retries
                                THEN rc_pc' = "attempt" /\ UNCHANGED rc_result
                                ELSE rc_pc' = "done" /\ rc_result' = UnexpectedError
    /\ UNCHANGED <<rc_caller, rc_retries, rc_delay>>

\* time.sleep(wait_time) returns; `continue` takes the next attempt.
RCWake ==
    /\ rc_pc = "sleeping"
    /\ rc_attempt' = rc_attempt + 1
    /\ IF rc_attempt + 1 < rc_retries
         THEN rc_pc' = "attempt" /\ UNCHANGED rc_result
         ELSE rc_pc' = "done" /\ rc_result' = UnexpectedError
    /\ UNCHANGED <<rc_caller, rc_retries, rc_delay, rc_trace>>

RCIdle ==
    /\ rc_pc = "idle" /\ rc_caller = "none" /\ rc_retries = 0 /\ rc_delay = 0
    /\ rc_attempt = 0 /\ rc_trace = <<>> /\ rc_result = NoResult

RCReset ==
    /\ rc_pc' = "idle" /\ rc_caller' = "none" /\ rc_retries' = 0 /\ rc_delay' = 0
    /\ rc_attempt' = 0 /\ rc_trace' = <<>> /\ rc_result' = NoResult

(***************************************************************************)
(* PlanTripRequest, DayPlan, ItineraryResponse                             *)
(* A date is its day number; a city is the sequence of its characters.     *)
(***************************************************************************)
MinCityLen  == 2
MaxCityLen  == 80
MaxTripDays == 30

\* Bounds of the requests posted: start_date in 0..MaxStart, end_date in
\* 0..MaxEnd.
MaxStart == 1
MaxEnd   == 31

\* The first fallback response is remembered, to be compared with later
\* ones, when its trip has at most MaxMemoDays days.
MaxMemoDays == 2

IsSpace(c) == c \in {" ", "\t", "\n"}

\* str_strip_whitespace: leading and trailing whitespace is removed.
RECURSIVE StripLeft(_)
StripLeft(str) ==
    IF str # <<>> /\ IsSpace(Head(str)) THEN StripLeft(Tail(str)) ELSE str

RECURSIVE StripRight(_)
StripRight(str) ==
    IF str # <<>> /\ IsSpace(str[Len(str)])
      THEN StripRight(SubSeq(str, 1, Len(str) - 1))
      ELSE str

Strip(str) == StripRight(StripLeft(str))

\* Field(..., min_length=2, max_length=80), applied to the stripped city.
CityOk(city) == Len(city) >= MinCityLen /\ Len(city) <= MaxCityLen

TripDays(start_date, end_date) == (end_date - start_date) + 1

EndBeforeStart(start_date, end_date) == end_date < start_date

TripTooLongMut(start_date, end_date) == TripDays(start_date, end_date) >= MaxTripDays

TripTooLong(start_date, end_date) == TripDays(start_date, end_date) > MaxTripDays

\* PlanTripRequest.validate_dates (mode="after": the fields validated first).
ValidateDates(start_date, end_date) ==
    ~EndBeforeStart(start_date, end_date) /\ ~TripTooLong(start_date, end_date)

\* Validation of the posted body: the request, or None when it is rejected.
PlanTripRequest(raw) ==
    LET city == Strip(raw.city)
    IN  IF CityOk(city) /\ ValidateDates(raw.start_date, raw.end_date)
          THEN [city |-> city, start_date |-> raw.start_date, end_date |-> raw.end_date]
          ELSE None

LongCity == [i \in 1..(MaxCityLen + 1) |-> "x"]

RawCities ==
    { <<"R", "o", "m", "e">>, <<" ", "O", "s", "l", "o", "\n">>,
      <<"L">>, <<" ", "L", " ">>, LongCity }

RawRequests ==
    [city : RawCities, start_date : 0..MaxStart, end_date : 0..MaxEnd]

DayPlan(day, date, summary, activities) ==
    [day |-> day, date |-> date, summary |-> summary, activities |-> activities]

ItineraryResponse(city, start_date, end_date, days) ==
    [city |-> city, start_date |-> start_date, end_date |-> end_date, days |-> days]

(***************************************************************************)
(* JSON texts of the model and their validation.  A JSON value is a record *)
(* tagged with its type; a date travels as an ISO string.                  *)
(***************************************************************************)
JStr(str)     == [t |-> "str", v |-> str]
JInt(n)       == [t |-> "int", v |-> n]
JNumStr(n)    == [t |-> "numstr", v |-> n]      \* a string of digits, "3"
JIsoDate(d)   == [t |-> "isodate", v |-> d]     \* "2026-01-03"
JList(items)  == [t |-> "list", v |-> items]
JMissing      == [t |-> "missing", v |-> None]  \* the key is absent
JDay(day, date, summary, activities) ==
    [t |-> "object", day |-> day, date |-> date, summary |-> summary, activities |-> activities]
JItinerary(city, start_date, end_date, days) ==
    [t |-> "object", city |-> city, start_date |-> start_date, end_date |-> end_date, days |-> days]
JArray        == [t |-> "array"]                \* a top-level JSON array

\* A text the model can send back.
JsonText(data) == [json |-> TRUE, data |-> data]
Prose          == [json |-> FALSE, data |-> [t |-> "none"]]

\* pydantic's lax conversions for the annotated types.
IsStr(x)  == x.t = "str"
IsInt(x)  == x.t \in {"int", "numstr"}
IsDate(x) == x.t = "isodate"
IsList(x) == x.t = "list"
IsStrList(x) == IsList(x) /\ \A i \in 1..Len(x.v) : IsStr(x.v[i])

DayPlanOk(d) ==
    /\ d.t = "object"
    /\ IsInt(d.day) /\ IsDate(d.date) /\ IsStr(d.summary)
    /\ IsStrList(d.activities)

ItineraryOk(data) ==
    /\ data.t = "object"
    /\ IsStr(data.city) /\ IsDate(data.start_date) /\ IsDate(data.end_date)
    /\ IsList(data.days) /\ \A i \in 1..Len(data.days.v) : DayPlanOk(data.days.v[i])

ToDayPlan(d) ==
    DayPlan(d.day.v, d.date.v, d.summary.v, [i \in 1..Len(d.activities.v) |-> d.activities.v[i].v])

ModelValidateRederiveMut(data) ==
    IF ItineraryOk(data)
      THEN ItineraryResponse(data.city.v, data.start_date.v, data.end_date.v,
                             [i \in 1..Len(data.days.v) |->
                                 DayPlan(i, data.start_date.v + (i - 1),
                                         ToDayPlan(data.days.v[i]).summary,
                                         ToDayPlan(data.days.v[i]).activities)])
      ELSE None

\* ItineraryResponse.model_validate(data): the model, or None when
\* pydantic raises ValidationError (a ValueError).
ModelValidate(data) ==
    IF ItineraryOk(data)
      THEN ItineraryResponse(data.city.v, data.start_date.v, data.end_date.v,
                             [i \in 1..Len(data.days.v) |-> ToDayPlan(data.days.v[i])])
      ELSE None

\* json.loads(text): "TypeError" for None, "JSONDecodeError" for a text that
\* is not JSON, else the parsed value.
JsonLoads(text) ==
    IF text = None THEN [exc |-> "TypeError", data |-> [t |-> "none"]]
    ELSE IF ~text.json THEN [exc |-> "JSONDecodeError", data |-> [t |-> "none"]]
    ELSE [exc |-> "", data |-> text.data]

\* Itineraries the model may write for a request.
AiActivities == JList(<<JStr(<<"Activity 1">>), JStr(<<"Activity 2">>), JStr(<<"Activity 3">>)>>)
AiDay(n, d)  == JDay(JInt(n), JIsoDate(d), JStr(<<"One-sentence highlight for the day">>), AiActivities)

AiDays(req, dayOff, dateOff, count) ==
    JList([i \in 1..count |-> AiDay(i + dayOff, req.start_date + (i - 1) + dateOff)])

AiItinerary(req, days) ==
    JItinerary(JStr(req.city), JIsoDate(req.start_date), JIsoDate(req.end_date), days)

AiTexts(req) ==
    LET n == TripDays(req.start_date, req.end_date)
    IN  { JsonText(AiItinerary(req, AiDays(req, 0, 0, n))),          \* as asked
          JsonText(AiItinerary(req, AiDays(req, 0, 0, 1))),          \* the first day only
          JsonText(AiItinerary(req, AiDays(req, 0, 0, 0))),          \* "days": []
          JsonText(AiItinerary(req, AiDays(req, 1, 0, n))),          \* days numbered from 2
          JsonText(AiItinerary(req, AiDays(req, 0, 1, n))),          \* dates one day late
          JsonText(AiItinerary(req, JMissing)),                      \* no "days" key
          JsonText(AiItinerary(req, JList(<<JDay(JStr(<<"one">>), JIsoDate(req.start_date),
                                                JStr(<<"s">>), AiActivities)>>))),
          JsonText(JArray),
          Prose }

(***************************************************************************)
(* safe_itinerary_call                                                     *)
(***************************************************************************)
ItineraryFailed == HTTPException(500, "Failed to generate travel itinerary")

\* What the single request produces: an API error, a response without
\* choices, or choices[0].message.content (a text or None).
ItineraryOutcomes(req) ==
    { [k |-> "raise", content |-> None, msg |-> m] : m \in ApiErrors }
    \cup { [k |-> "nochoices", content |-> None, msg |-> <<>>] }
    \cup { [k |-> "content", content |-> c, msg |-> <<>>] : c \in AiTexts(req) \cup {None} }

SafeItineraryCallMut(o) ==
    IF o.k = "content"
      THEN [kind |-> "return", status |-> 200, value |-> o.content]
      ELSE IF o.k = "raise" /\ IsRateLimit(o.msg)
        THEN RateLimited
        ELSE [kind |-> "raise", status |-> ItineraryFailed.status, value |-> ItineraryFailed.value]

\* One request, no retry: any exception inside the try block becomes
\* HTTPException(500); the content is returned as it is.
SafeItineraryCall(o) ==
    IF o.k = "content"
      THEN [kind |-> "return", status |-> 200, value |-> o.content]
      ELSE [kind |-> "raise", status |-> ItineraryFailed.status, value |-> ItineraryFailed.value]

(***************************************************************************)
(* plan_trip                                                               *)
(***************************************************************************)
Suggestions(city) ==
    << <<"Explore iconic landmarks in ", city>>,
       <<"Sample local cuisine at a recommended spot">>,
       <<"Visit a museum, gallery, or cultural center">>,
       <<"Walk through scenic neighborhoods or parks">> >>

FallbackActivitiesMut(city, i) ==
    IF i % 2 = 1 THEN SubSeq(Suggestions(city), 1, 3)
                 ELSE SubSeq(Suggestions(city), 2, Len(Suggestions(city)))

\* activities = suggestions[:3] if i % 2 == 0 else suggestions[1:]
FallbackActivities(city, i) ==
    IF i % 2 = 0 THEN SubSeq(Suggestions(city), 1, 3)
                 ELSE SubSeq(Suggestions(city), 2, Len(Suggestions(city)))

FallbackDayMut(req, i) ==
    DayPlan(i, req.start_date + i, <<"Discover highlights of ", req.city>>,
            FallbackActivities(req.city, i))

\* The DayPlan appended for loop index i (zero-based).
FallbackDay(req, i) ==
    DayPlan(i + 1, req.start_date + i, <<"Discover highlights of ", req.city>>,
            FallbackActivities(req.city, i))

FallbackItineraryMut(req) ==
    LET total_days == TripDays(req.start_date, req.end_date)
    IN  ItineraryResponse(req.city, req.start_date, req.end_date,
                          IF plan_ai.kind = "raise"
                            THEN [n \in 1..total_days |-> FallbackDay(req, n - 1)]
                            ELSE <<>>)

FallbackItinerary(req) ==
    LET total_days == TripDays(req.start_date, req.end_date)
    IN  ItineraryResponse(req.city, req.start_date, req.end_date,
                          [n \in 1..total_days |-> FallbackDay(req, n - 1)])

\* Whether the except clause of plan_trip catches the exception.
Caught(exc) == exc \in {"JSONDecodeError", "ValueError", "HTTPException"}

Response(itinerary, origin) == [kind |-> "response", origin |-> origin, value |-> itinerary]
Failure(exc, status)        == [kind |-> "error", origin |-> exc, value |-> status]

\* The exception the try block of plan_trip ends with ("" when it returns).
TryBlockError(ai) ==
    IF ai.kind = "raise" THEN "HTTPException"
    ELSE IF JsonLoads(ai.value).exc # "" THEN JsonLoads(ai.value).exc
    ELSE IF ModelValidate(JsonLoads(ai.value).data) = None THEN "ValueError"
    ELSE ""

\* The history of fallback responses: the first one of a short trip, with
\* the request and the exception that led to it.
Remember(memo, req, exc, itinerary) ==
    IF memo = None /\ TripDays(req.start_date, req.end_date) <= MaxMemoDays
      THEN [req |-> req, exc |-> exc, value |-> itinerary]
      ELSE memo

\* The request arrives: FastAPI validates the body before the handler runs
\* and answers 422 when validation fails.
PlanReceive(raw) ==
    /\ plan_pc = "idle"
    /\ plan_raw' = raw
    /\ IF PlanTripRequest(raw) = None
         THEN /\ plan_pc' = "rejected"
              /\ plan_result' = Failure("RequestValidationError", 422)
              /\ UNCHANGED plan_req
         ELSE /\ plan_pc' = "validated"
              /\ plan_req' = PlanTripRequest(raw)
              /\ UNCHANGED plan_result
    /\ UNCHANGED <<plan_outcome, plan_ai, it_requests, fallbacks, fallback_memo>>
    /\ UNCHANGED <<rc_vars, conv_vars, chat_vars, hist_vars>>

\* ai_response = safe_itinerary_call(system_msg, user_prompt)
PlanCall ==
    /\ plan_pc = "validated"
    /\ plan_pc' = "called"
    /\ it_requests' = it_requests + 1
    /\ \E o \in ItineraryOutcomes(plan_req) :
          plan_outcome' = o /\ plan_ai' = SafeItineraryCall(o)
    /\ UNCHANGED <<plan_raw, plan_req, plan_result, fallbacks, fallback_memo>>
    /\ UNCHANGED <<rc_vars, conv_vars, chat_vars, hist_vars>>

\* json.loads, model_validate and the return, or the except block.
PlanFinish ==
    /\ plan_pc = "called"
    /\ plan_pc' = "done"
    /\ LET exc == TryBlockError(plan_ai)
       IN  IF exc = ""
             THEN /\ plan_result' = Response(ModelValidate(JsonLoads(plan_ai.value).data), "ai")
                  /\ UNCHANGED <<fallbacks, fallback_memo>>
             ELSE IF Caught(exc)
               THEN /\ plan_result' = Response(FallbackItinerary(plan_req), "fallback")
                    /\ fallbacks' = fallbacks + 1
                    /\ fallback_memo' = Remember(fallback_memo, plan_req, exc, plan_result'.value)
               ELSE /\ plan_result' = Failure(exc, 500)
                    /\ UNCHANGED <<fallbacks, fallback_memo>>
    /\ UNCHANGED <<plan_raw, plan_req, plan_outcome, plan_ai, it_requests>>
    /\ UNCHANGED <<rc_vars, conv_vars, chat_vars, hist_vars>>

\* The response is sent; the next request starts afresh.
PlanReturn ==
    /\ plan_pc \in {"rejected", "done"}
    /\ plan_pc' = "idle" /\ plan_raw' = None /\ plan_req' = None /\ plan_ai' = None
    /\ plan_outcome' = None
    /\ plan_result' = None /\ it_requests' = 0 /\ fallbacks' = 0
    /\ UNCHANGED fallback_memo
    /\ UNCHANGED <<rc_vars, conv_vars, chat_vars, hist_vars>>

(***************************************************************************)
(* chat_endpoint: the conversational /chat of src/backend/app/main.py      *)
(***************************************************************************)
NumSlots == 10

\* Bounds of the messages posted: a message answers at most MaxAnswers
\* questions, each within MaxAhead places of the first one the user has not
\* answered yet (or it answers all ten).
MaxAnswers == 2
MaxAhead   == 1

CONVERSATION_QUESTIONS ==
    << <<"day", "Which day are you planning your tour?">>,
       <<"location", "Which city/country/region do you want to visit?">>,
       <<"date", "What are your preferred travel dates?">>,
       <<"travel_style", "Are you looking for luxury, mid-range, or budget travel?">>,
       <<"budget", "Approximate budget per person (including accommodation, food, transport, activities)?">>,
       <<"accommodation", "Do you prefer hotels, hostels, resorts, or homestays?">>,
       <<"activities", "What kind of experiences are you interested in? (nature, adventure, cultural experiences, shopping, nightlife)">>,
       <<"transportation", "How do you prefer to travel locally? (rental car, public transport, walking, bike)">>,
       <<"dining", "Do you have any dietary restrictions or food interests?">>,
       <<"special_requests", "Any special requests, accessibility needs, or events you want included?">> >>

Key(i)      == CONVERSATION_QUESTIONS[i][1]
Question(i) == CONVERSATION_QUESTIONS[i][2]
Keys        == {Key(i) : i \in 1..NumSlots}

Apology == "Sorry, I couldn't generate the itinerary at this time."

\* Python dicts.
EmptyDict == [x \in {} |-> Null]
DictSet(d, k, v) == [x \in (DOMAIN d) \cup {k} |-> IF x = k THEN v ELSE d[x]]
DictPop(d, k) == [x \in (DOMAIN d) \ {k} |-> d[x]]

\* ChatInput: user_id and the ten optional answers (None when not sent).
RawUsers == {Null, "", "u1"}
Answers  == {"a"}

\* user_id = chat_input.user_id or "default_user"
UserId(raw) == IF raw = Null \/ raw = "" THEN "default_user" ELSE raw

RECURSIVE MergeFromEraseMut(_, _, _)
MergeFromEraseMut(state, answers, i) ==
    IF i > NumSlots THEN state
    ELSE IF answers[Key(i)] # Null
      THEN MergeFromEraseMut(DictSet(state, Key(i), answers[Key(i)]), answers, i + 1)
      ELSE MergeFromEraseMut(DictPop(state, Key(i)), answers, i + 1)

RECURSIVE MergeFromTruthyMut(_, _, _)
MergeFromTruthyMut(state, answers, i) ==
    IF i > NumSlots THEN state
    ELSE IF answers[Key(i)] # Null /\ answers[Key(i)] # ""
      THEN MergeFromTruthyMut(DictSet(state, Key(i), answers[Key(i)]), answers, i + 1)
      ELSE MergeFromTruthyMut(state, answers, i + 1)

\* for key, _ in CONVERSATION_QUESTIONS: if val is not None: state[key] = val
RECURSIVE MergeFrom(_, _, _)
MergeFrom(state, answers, i) ==
    IF i > NumSlots THEN state
    ELSE IF answers[Key(i)] # Null
      THEN MergeFrom(DictSet(state, Key(i), answers[Key(i)]), answers, i + 1)
      ELSE MergeFrom(state, answers, i + 1)

Merge(state, answers) == MergeFrom(state, answers, 1)

RECURSIVE FirstMissingFromMut(_, _)
FirstMissingFromMut(state, i) ==
    IF i > NumSlots THEN 0
    ELSE IF Key(i) \notin DOMAIN state /\ i > 1 THEN i - 1
    ELSE IF Key(i) \notin DOMAIN state THEN i
    ELSE FirstMissingFromMut(state, i + 1)

\* for key, question in CONVERSATION_QUESTIONS: if key not in state: the
\* index of that question, 0 when the loop ends without returning.
RECURSIVE FirstMissingFrom(_, _)
FirstMissingFrom(state, i) ==
    IF i > NumSlots THEN 0
    ELSE IF Key(i) \notin DOMAIN state THEN i
    ELSE FirstMissingFrom(state, i + 1)

FirstMissingAfterLastMut(state) ==
    LET answered == {i \in 1..NumSlots : Key(i) \in DOMAIN state}
        last     == IF answered = {} THEN 0
                    ELSE CHOOSE i \in answered : \A j \in answered : j <= i
    IN  IF last < NumSlots THEN last + 1 ELSE FirstMissingFrom(state, 1)

FirstMissing(state) == FirstMissingFrom(state, 1)

\* `await x`: x must be awaitable.  safe_perplexity_call is a plain `def`
\* that returns a str, so awaiting its value raises TypeError.
StrObject(text) == [type |-> "str", value |-> text]
IsAwaitable(obj) == obj.type \in {"coroutine", "task", "future"}
Await(obj) ==
    IF IsAwaitable(obj) THEN [exc |-> "", value |-> obj.value]
                        ELSE [exc |-> "TypeError", value |-> Null]

\* try: ai_response = await safe_perplexity_call(prompt)
\* except Exception: ai_response = <apology>
AiResponse(result) ==
    IF result.kind = "raise" THEN Apology
    ELSE IF Await(StrObject(result.value)).exc # "" THEN Apology
    ELSE Await(StrObject(result.value)).value

\* The exception the try block of lines 164-165 ends with, "" for none.
CallException(result) ==
    IF result.kind = "raise" THEN "HTTPException"
    ELSE Await(StrObject(result.value)).exc

ExceptExceptionMut(exc) == exc = "TypeError"

\* `except Exception` (line 166): HTTPException and TypeError are both
\* subclasses of Exception.
ExceptException(exc) == exc \in {"HTTPException", "TypeError"}

ClearStateKeepMut(states, user_id, result) == states

ClearStateAllMut(states, user_id, result) == EmptyDict

ClearStateMut(states, user_id, result) ==
    IF result.kind = "raise" THEN states ELSE DictPop(states, user_id)

\* chat_state.pop(user_id, None), reached whatever the call did.
ClearState(states, user_id, result) == DictPop(states, user_id)

NoResponse ==
    [user_id |-> Null, response |-> "", final |-> FALSE, ai |-> NoResult, error |-> ""]
Pending    == "<pending>"

\* The scripted conversation: message k answers question k alone, for
\* k = 1..NumSlots, and message NumSlots + 1 answers nothing.
ScriptSupplied(k) == IF k <= NumSlots THEN {k} ELSE {}

Supplied(answers) == {i \in 1..NumSlots : answers[Key(i)] # Null}

\* script_log after user_id, who had stored state or not (fresh), sent
\* answers and got response: the log grows while the user follows the
\* script from a fresh start, and is dropped otherwise.
ScriptStep(log, user_id, fresh, answers, response) ==
    IF /\ user_id \in DOMAIN log
       /\ Len(log[user_id]) <= NumSlots
       /\ Supplied(answers) = ScriptSupplied(Len(log[user_id]) + 1)
      THEN DictSet(log, user_id, Append(log[user_id], response))
    ELSE IF fresh /\ Supplied(answers) = ScriptSupplied(1)
      THEN DictSet(log, user_id, <<response>>)
    ELSE DictPop(log, user_id)

\* The final response replaces the placeholder logged when the call began.
ScriptResolve(log, user_id, response) ==
    IF user_id \in DOMAIN log
      THEN DictSet(log, user_id,
             [i \in 1..Len(log[user_id]) |->
                 IF log[user_id][i] = Pending THEN response ELSE log[user_id][i]])
      ELSE log

\* Lines 140-162: the state is created and merged, then either the next
\* unanswered question is returned or safe_perplexity_call is entered.
ConvReceive(raw_user, answers) ==
    /\ conv_pc = "idle"
    /\ LET user_id == UserId(raw_user)
           fresh   == user_id \notin DOMAIN chat_state
           state   == Merge(IF fresh THEN EmptyDict ELSE chat_state[user_id], answers)
           q       == FirstMissing(state)
       IN  /\ chat_state' = DictSet(chat_state, user_id, state)
           /\ IF q # 0
                THEN /\ conv_last' = [user_id |-> user_id, response |-> Question(q),
                                      final |-> FALSE, ai |-> NoResult, error |-> ""]
                     /\ script_log' = ScriptStep(script_log, user_id, fresh, answers, Question(q))
                     /\ UNCHANGED <<conv_pc, conv_user, rc_vars>>
                ELSE /\ conv_pc' = "calling"
                     /\ conv_user' = user_id
                     /\ RCBegin("conv", DefaultRetries, DefaultDelay)
                     /\ script_log' = ScriptStep(script_log, user_id, fresh, answers, Pending)
                     /\ conv_last' = NoResponse
    /\ UNCHANGED <<plan_vars, chat_vars>>

ConvAttempt(o) ==
    /\ conv_pc = "calling"
    /\ rc_caller = "conv"
    /\ RCAttempt(o)
    /\ UNCHANGED <<plan_vars, conv_vars, chat_vars, hist_vars>>

ConvWake ==
    /\ conv_pc = "calling"
    /\ rc_caller = "conv"
    /\ RCWake
    /\ UNCHANGED <<plan_vars, conv_vars, chat_vars, hist_vars>>

\* Lines 164-173: the await, the except block, the pop and the return.
ConvFinish ==
    /\ conv_pc = "calling"
    /\ rc_caller = "conv"
    /\ rc_pc = "done"
    /\ LET exc == CallException(rc_result)
       IN  IF exc = "" \/ ExceptException(exc)
             THEN /\ chat_state' = ClearState(chat_state, conv_user, rc_result)
                  /\ conv_last' = [user_id |-> conv_user, response |-> AiResponse(rc_result),
                                   final |-> TRUE, ai |-> rc_result, error |-> ""]
                  /\ script_log' = ScriptResolve(script_log, conv_user, AiResponse(rc_result))
             ELSE \* the exception leaves the handler before line 171
                  /\ chat_state' = chat_state
                  /\ conv_last' = [user_id |-> conv_user, response |-> "",
                                   final |-> TRUE, ai |-> rc_result, error |-> exc]
                  /\ script_log' = ScriptResolve(script_log, conv_user, "")
    /\ conv_pc' = "idle"
    /\ conv_user' = Null
    /\ RCReset
    /\ UNCHANGED <<plan_vars, chat_vars, hist_vars>>

\* The sets of at most n elements of W.
RECURSIVE SubsetsUpTo(_, _)
SubsetsUpTo(W, n) ==
    IF n = 0 THEN {{}}
    ELSE LET P == SubsetsUpTo(W, n - 1) IN P \cup {p \cup {i} : p \in P, i \in W}

\* The questions a message of user_id may answer in this state.
SuppliedSets(user_id) ==
    LET first == IF user_id \in DOMAIN chat_state THEN FirstMissing(chat_state[user_id]) ELSE 1
        near  == {i \in 1..NumSlots : i >= first - MaxAhead /\ i <= first + MaxAhead}
    IN  SubsetsUpTo(near, MaxAnswers) \cup {1..NumSlots}

\* A ChatInput without answers.
NoAnswers == [k \in Keys |-> Null]

\* The ChatInput answers for the questions of S, with the values of vals.
AnswersFor(S, vals) ==
    [k \in Keys |-> IF \E i \in S : Key(i) = k
                      THEN vals[CHOOSE i \in S : Key(i) = k]
                      ELSE Null]

(***************************************************************************)
(* chat (src/app/main.py) and legacy_chat (src/backend/app/main.py): the   *)
(* same code.  The handler is an `async def` without any await, and        *)
(* safe_perplexity_call blocks in the request and in time.sleep, so the    *)
(* handler holds the event loop thread from its first line to its return.  *)
(***************************************************************************)
Requests == {"r1", "r2"}

\* ChatRequest.query as posted, a sequence of characters.
Queries ==
    { <<>>, <<" ">>, <<"\t", "\n">>, <<"H", "i">>, <<" ", "H", " ", "i", "\n">> }

TrimMut(query) == query

\* q = (chat_request.query or "").strip()
Trim(query) == Strip(query)

ChatReply(text) == [kind |-> "reply", status |-> 200, value |-> text]

ReRaiseMut(exc) == HTTPException(500, "Internal server error")

\* except HTTPException: raise
ReRaise(exc) == exc

\* Lines 116-121: the reply on a return, the same exception on a raise.
ChatOutcome(result) ==
    IF result.kind = "raise" THEN ReRaise(result) ELSE ChatReply(result.value)

ChatIdle ==
    /\ loop_task = Null
    /\ chat_pc = [r \in Requests |-> "none"]
    /\ chat_query = [r \in Requests |-> <<>>]
    /\ chat_calls = [r \in Requests |-> <<>>]
    /\ chat_ai = [r \in Requests |-> NoResult]
    /\ chat_result = [r \in Requests |-> NoResult]

\* A request arrives; its handler coroutine waits for the event loop.
ChatPost(r, query) ==
    /\ chat_pc[r] = "none"
    /\ chat_pc' = [chat_pc EXCEPT ![r] = "queued"]
    /\ chat_query' = [chat_query EXCEPT ![r] = query]
    /\ UNCHANGED <<loop_task, chat_calls, chat_ai, chat_result>>
    /\ UNCHANGED <<rc_vars, plan_vars, conv_vars, hist_vars>>

\* The event loop, free, runs the handler: lines 111-117.  An empty q is
\* answered at once; otherwise safe_perplexity_call(q) is entered and the
\* thread stays with this handler.
ChatStart(r) ==
    /\ chat_pc[r] = "queued"
    /\ loop_task = Null
    /\ LET q == Trim(chat_query[r])
       IN  IF q = <<>>
             THEN /\ chat_result' = [chat_result EXCEPT ![r] = ChatReply("")]
                  /\ chat_pc' = [chat_pc EXCEPT ![r] = "done"]
                  /\ UNCHANGED <<loop_task, chat_calls, rc_vars>>
             ELSE /\ loop_task' = r
                  /\ chat_pc' = [chat_pc EXCEPT ![r] = "running"]
                  /\ chat_calls' = [chat_calls EXCEPT ![r] = Append(@, q)]
                  /\ RCBegin("chat", DefaultRetries, DefaultDelay)
                  /\ UNCHANGED chat_result
    /\ UNCHANGED <<chat_query, chat_ai>>
    /\ UNCHANGED <<plan_vars, conv_vars, hist_vars>>

ChatAttempt(o) ==
    /\ rc_caller = "chat"
    /\ RCAttempt(o)
    /\ UNCHANGED <<plan_vars, conv_vars, chat_vars, hist_vars>>

ChatWake ==
    /\ rc_caller = "chat"
    /\ RCWake
    /\ UNCHANGED <<plan_vars, conv_vars, chat_vars, hist_vars>>

\* Lines 117-124: the call is over, the handler returns or raises and the
\* event loop is free again.
ChatFinish ==
    /\ rc_caller = "chat"
    /\ rc_pc = "done"
    /\ chat_ai' = [chat_ai EXCEPT ![loop_task] = rc_result]
    /\ chat_result' = [chat_result EXCEPT ![loop_task] = ChatOutcome(rc_result)]
    /\ chat_pc' = [chat_pc EXCEPT ![loop_task] = "done"]
    /\ loop_task' = Null
    /\ RCReset
    /\ UNCHANGED <<chat_query, chat_calls>>
    /\ UNCHANGED <<plan_vars, conv_vars, hist_vars>>

\* The response is sent; the request is over.
ChatRespond(r) ==
    /\ chat_pc[r] = "done"
    /\ chat_pc' = [chat_pc EXCEPT ![r] = "none"]
    /\ chat_query' = [chat_query EXCEPT ![r] = <<>>]
    /\ chat_calls' = [chat_calls EXCEPT ![r] = <<>>]
    /\ chat_ai' = [chat_ai EXCEPT ![r] = NoResult]
    /\ chat_result' = [chat_result EXCEPT ![r] = NoResult]
    /\ UNCHANGED loop_task
    /\ UNCHANGED <<rc_vars, plan_vars, conv_vars, hist_vars>>

(***************************************************************************)
(* SpecRetry: safe_perplexity_call invoked with retries and delay drawn    *)
(* from the bounds.                                                        *)
(***************************************************************************)
RetryInvoke(retries, delay) ==
    /\ rc_pc = "idle"
    /\ RCBegin("direct", retries, delay)
    /\ UNCHANGED <<plan_vars, conv_vars, chat_vars, hist_vars>>

RetryAttempt(o) == RCAttempt(o) /\ UNCHANGED <<plan_vars, conv_vars, chat_vars, hist_vars>>

RetryWake == RCWake /\ UNCHANGED <<plan_vars, conv_vars, chat_vars, hist_vars>>

\* The caller takes the result; the next invocation starts afresh.
RetryReturn ==
    /\ rc_pc = "done"
    /\ rc_caller = "direct"
    /\ RCReset
    /\ UNCHANGED <<plan_vars, conv_vars, chat_vars, hist_vars>>

PlanIdle ==
    /\ plan_pc = "idle" /\ plan_raw = None /\ plan_req = None /\ plan_ai = None
    /\ plan_outcome = None
    /\ plan_result = None /\ it_requests = 0 /\ fallbacks = 0
    /\ fallback_memo = None

ConvIdle ==
    /\ chat_state = EmptyDict /\ conv_pc = "idle" /\ conv_user = Null
    /\ conv_last = NoResponse /\ script_log = EmptyDict
    /\ chat_input = NoAnswers /\ asked_run = 0

Init == RCIdle /\ PlanIdle /\ ConvIdle /\ ChatIdle

NextRetry ==
    \/ \E retries \in 0..MaxRetries, delay \in 1..MaxDelay : RetryInvoke(retries, delay)
    \/ \E o \in Outcomes : RetryAttempt(o)
    \/ RetryWake
    \/ RetryReturn

SpecRetry == Init /\ [][NextRetry]_vars

\* SpecRetryFair: a request to the API comes back, with a response or an
\* exception, and time.sleep returns.
RetryStep == \E o \in Outcomes : RetryAttempt(o)

SpecRetryFair == SpecRetry /\ WF_vars(RetryStep) /\ WF_vars(RetryWake)

NextPlan ==
    \/ \E raw \in RawRequests : PlanReceive(raw)
    \/ PlanCall
    \/ PlanFinish
    \/ PlanReturn

SpecPlan == Init /\ [][NextPlan]_vars

\* A message is posted to /chat.
ConvPost ==
    /\ \E raw_user \in RawUsers :
          \E S \in SuppliedSets(UserId(raw_user)) :
             \E vals \in [S -> Answers] : ConvReceive(raw_user, AnswersFor(S, vals))
    /\ UNCHANGED hist_vars

NextConv ==
    \/ ConvPost
    \/ \E o \in Outcomes : ConvAttempt(o)
    \/ ConvWake
    \/ ConvFinish

SpecConv == Init /\ [][NextConv]_vars

(***************************************************************************)
(* SpecMerge: one user of the conversational /chat whose answers are a     *)
(* text or, for the first questions, the empty string, so that an answer   *)
(* can be given again with another value; the message received is kept in  *)
(* chat_input.  The API answers the completing call at the first attempt.  *)
(***************************************************************************)
MergeAnswers == {"a", ""}

\* Bound of SpecMerge: the empty string is given for the first MaxBlank
\* questions only.
MaxBlank == 3

\* The values a message may give for the questions of S.
MergeValues(S) ==
    {vals \in [S -> MergeAnswers] : \A i \in S : i > MaxBlank => vals[i] = "a"}

\* The questions a message may answer: as in SuppliedSets, without the
\* message that answers all ten.
MergeSets(user_id) ==
    LET first == IF user_id \in DOMAIN chat_state THEN FirstMissing(chat_state[user_id]) ELSE 1
        near  == {i \in 1..NumSlots : i >= first - MaxAhead /\ i <= first + MaxAhead}
    IN  SubsetsUpTo(near, MaxAnswers)

\* The question due for user_id: the one the scan loop returned last, the
\* first one for a user without state.
Due(user_id) ==
    IF user_id \in DOMAIN chat_state THEN FirstMissing(chat_state[user_id]) ELSE 1

\* asked_run after a message that answers the questions of S.
RunAfter(run, user_id, S) ==
    IF Due(user_id) \notin S THEN 0
    ELSE IF user_id \in DOMAIN chat_state THEN run + 1
    ELSE 1

MergePost ==
    \E S \in MergeSets("u1") :
       \E vals \in MergeValues(S) :
          /\ ConvReceive("u1", AnswersFor(S, vals))
          /\ chat_input' = AnswersFor(S, vals)
          /\ asked_run' = RunAfter(asked_run, "u1", S)

MergeAttempt == ConvAttempt([k |-> "content", content |-> "c1", msg |-> <<>>])

NextMerge ==
    \/ MergePost
    \/ MergeAttempt
    \/ ConvFinish

SpecMerge == Init /\ [][NextMerge]_vars

NextChat ==
    \/ \E r \in Requests, query \in Queries : ChatPost(r, query)
    \/ \E r \in Requests : ChatStart(r)
    \/ \E o \in Outcomes : ChatAttempt(o)
    \/ ChatWake
    \/ ChatFinish
    \/ \E r \in Requests : ChatRespond(r)

SpecChat == Init /\ [][NextChat]_vars

(***************************************************************************)
(* Properties of safe_perplexity_call (SpecRetry).                         *)
(***************************************************************************)
RequestsOf(tr) == SelectSeq(tr, LAMBDA e : e.ev = "request")
SleepsOf(tr)   == SelectSeq(tr, LAMBDA e : e.ev = "sleep")

\* The API errors that signal rate limiting, and the other failures.
RateLimitFailure(o) ==
    /\ o.k = "raise"
    /\ o.msg \in { <<"Error code: ", "429">>, <<"Rate Limit", " reached">>, <<"rate limit", " exceeded">> }
OtherFailure(o) ==
    \/ o.k = "raise" /\ o.msg = <<"Connection error.">>
    \/ o.k = "nochoices"
    \/ o.k = "content" /\ o.content = Null
Success(o) == o.k = "content" /\ o.content \in Contents

\* The requests sent so far follow "rate limit, rate limit, success".
C4_Scenario ==
    LET reqs == RequestsOf(rc_trace)
    IN  /\ rc_caller = "direct"
        /\ rc_retries >= 3
        /\ Len(reqs) <= 3
        /\ \A i \in 1..Len(reqs) : IF i <= 2 THEN RateLimitFailure(reqs[i].outcome)
                                            ELSE Success(reqs[i].outcome)

\* C4: when the first two attempts fail with a rate-limit error and the
\* third succeeds, the call returns the third attempt's content after
\* exactly three requests, having slept exactly once after each failed
\* attempt, delay seconds and then 2*delay seconds, and not after the
\* successful attempt.
C4_BackoffThenSuccess ==
    C4_Scenario =>
        /\ Len(rc_trace) <= 5
        /\ \A i \in 1..Len(rc_trace) :
              IF i % 2 = 1
                THEN rc_trace[i].ev = "request" /\ rc_trace[i].attempt = (i - 1) \div 2
                ELSE rc_trace[i].ev = "sleep" /\ rc_trace[i].secs = rc_delay * (i \div 2)
        /\ (rc_pc = "sleeping") => (Len(rc_trace) \in {2, 4})
        /\ (rc_pc = "done") =>
              /\ Len(rc_trace) = 5
              /\ rc_result = Returned(rc_trace[5].outcome.content)

C4_Witness ==
    /\ C4_Scenario
    /\ rc_pc = "done"
    /\ rc_retries = 3 /\ rc_delay = 2
    /\ Len(RequestsOf(rc_trace)) = 3
    /\ [i \in 1..2 |-> SleepsOf(rc_trace)[i].secs] = <<2, 4>>
    /\ rc_result = Returned("c2")

\* Every request sent so far failed with a rate-limit error.
C5_Scenario ==
    /\ rc_caller = "direct"
    /\ rc_retries >= 1
    /\ \A i \in 1..Len(RequestsOf(rc_trace)) : RateLimitFailure(RequestsOf(rc_trace)[i].outcome)

\* C5: when every attempt fails with a rate-limit error the call ends, after
\* exactly retries requests, with RateLimited (429), never with a 500, and
\* nothing is slept after the last attempt.
C5_ExhaustedIsRateLimited ==
    C5_Scenario =>
        /\ Len(RequestsOf(rc_trace)) <= rc_retries
        /\ (rc_pc = "done") =>
              /\ rc_result = RateLimited
              /\ rc_result.status = 429
              /\ Len(RequestsOf(rc_trace)) = rc_retries
              /\ Len(SleepsOf(rc_trace)) = rc_retries - 1
              /\ rc_trace[Len(rc_trace)].ev = "request"

C5_Witness ==
    /\ C5_Scenario
    /\ rc_pc = "done"
    /\ rc_retries = 3
    /\ Len(RequestsOf(rc_trace)) = 3
    /\ rc_result.status = 429

\* C6: when the last (retries-th) attempt fails with an error that is not a
\* rate-limit error, the call fails with ServiceUnavailable (500), whatever
\* the earlier attempts did.
C6_OtherErrorIsUnavailable ==
    LET reqs == RequestsOf(rc_trace)
    IN  ( /\ rc_caller = "direct"
          /\ rc_retries >= 1
          /\ Len(reqs) >= rc_retries
          /\ OtherFailure(reqs[rc_retries].outcome) )
        => /\ rc_pc = "done"
           /\ rc_result = ServiceUnavailable
           /\ rc_result.status = 500
           /\ Len(reqs) = rc_retries

C6_Witness ==
    LET reqs == RequestsOf(rc_trace)
    IN  /\ rc_pc = "done"
        /\ rc_caller = "direct"
        /\ rc_retries = 3
        /\ Len(reqs) = 3
        /\ RateLimitFailure(reqs[1].outcome)
        /\ OtherFailure(reqs[2].outcome)
        /\ reqs[3].outcome.k = "raise" /\ OtherFailure(reqs[3].outcome)
        /\ rc_result = ServiceUnavailable

(***************************************************************************)
(* Properties of plan_trip (SpecPlan).                                     *)
(***************************************************************************)
\* The days of an itinerary are numbered 1, 2, ... and dated start_date,
\* start_date + 1, ... up to end_date.
CoversDates(it) ==
    /\ Len(it.days) = (it.end_date - it.start_date) + 1
    /\ \A i \in 1..Len(it.days) :
          /\ it.days[i].day = i
          /\ it.days[i].date = it.start_date + (i - 1)

\* C1: plan_trip returns an ItineraryResponse for every outcome of the
\* external call; no error reaches its caller.
C1_NeverFails ==
    (plan_pc = "done") => (plan_result.kind = "response")

\* C2: every ItineraryResponse plan_trip returns, from the model's text or
\* from the fallback, has days numbered from 1 that cover start_date to
\* end_date, one per date, in order.
C2_ReturnedCoversDates ==
    (plan_pc = "done" /\ plan_result.kind = "response") => CoversDates(plan_result.value)

\* C3: when the external call raises, plan_trip returns the fallback: the
\* request's city and dates, N = (end_date - start_date) + 1 days numbered
\* 1..N and dated start_date..end_date in order, each with activities.
C3_FallbackOnRaise ==
    (plan_pc = "done" /\ plan_ai.kind = "raise") =>
        /\ plan_result.kind = "response"
        /\ plan_result.value.city = Strip(plan_raw.city)
        /\ plan_result.value.start_date = plan_raw.start_date
        /\ plan_result.value.end_date = plan_raw.end_date
        /\ Len(plan_result.value.days) = (plan_raw.end_date - plan_raw.start_date) + 1
        /\ \A i \in 1..Len(plan_result.value.days) :
              /\ plan_result.value.days[i].day = i
              /\ plan_result.value.days[i].date = plan_raw.start_date + (i - 1)
              /\ Len(plan_result.value.days[i].activities) > 0

C3_Witness ==
    /\ plan_pc = "done"
    /\ plan_ai.kind = "raise"
    /\ plan_raw.city = <<" ", "O", "s", "l", "o", "\n">>
    /\ plan_result.kind = "response"
    /\ Len(plan_result.value.days) = 3
    /\ plan_result.value.days[3].day = 3

\* Posted cities that pass the length check once stripped.
ValidRawCities == { <<"R", "o", "m", "e">>, <<" ", "O", "s", "l", "o", "\n">> }

\* C7: a request with a valid city is rejected exactly when end_date is
\* before start_date or the trip has more than 30 days; a rejected request
\* sends no external request and builds no fallback.
C7_ValidationGate ==
    (plan_pc # "idle" /\ plan_raw.city \in ValidRawCities) =>
        /\ (plan_pc = "rejected") <=>
              \/ plan_raw.end_date < plan_raw.start_date
              \/ (plan_raw.end_date - plan_raw.start_date) + 1 > 30
        /\ (plan_pc = "rejected") =>
              /\ it_requests = 0
              /\ fallbacks = 0
              /\ plan_ai = None
              /\ plan_result.kind = "error"

C7_Witness ==
    /\ plan_pc = "rejected"
    /\ plan_raw.city \in ValidRawCities
    /\ plan_raw.start_date = 1
    /\ plan_raw.end_date = 31
    /\ it_requests = 0

(***************************************************************************)
(* Properties of chat_endpoint (SpecConv).                                 *)
(***************************************************************************)
\* C8: for a user without stored state, ten messages that answer the
\* questions one at a time in their order are answered, the first nine by
\* the text of the next question, the tenth by the generated text or the
\* apology; the state is then gone, and an eleventh message without answers
\* is answered by the first question.
C8_ScriptedConversation ==
    \A u \in DOMAIN script_log :
        /\ \A k \in 1..Len(script_log[u]) :
              /\ (k <= 9) => (script_log[u][k] = CONVERSATION_QUESTIONS[k + 1][2])
              /\ (k = 10) => (script_log[u][k] \in Contents \cup {Apology, Pending})
              /\ (k = 11) => (script_log[u][k] = "Which day are you planning your tour?")
        /\ (Len(script_log[u]) = 10 /\ conv_pc = "idle") =>
              /\ script_log[u][10] # Pending
              /\ u \notin DOMAIN chat_state
        /\ (Len(script_log[u]) \in 1..9) =>
              /\ u \in DOMAIN chat_state
              /\ DOMAIN chat_state[u] = {CONVERSATION_QUESTIONS[i][1] : i \in 1..Len(script_log[u])}

C8_Witness ==
    /\ "u1" \in DOMAIN script_log
    /\ Len(script_log["u1"]) = 11
    /\ script_log["u1"][9] = "Any special requests, accessibility needs, or events you want included?"
    /\ script_log["u1"][10] = Apology

\* C9: when the message completes the ten answers and safe_perplexity_call
\* returns a text, that text is the response; the apology is the response
\* only when the call failed.
C9_SuccessReturnsAiText ==
    conv_last.final =>
        /\ (conv_last.ai.kind = "return") => (conv_last.response = conv_last.ai.value)
        /\ (conv_last.response = Apology) => (conv_last.ai.kind = "raise")

\* C10: after the completing message the user has no stored state, whether
\* the call returned, raised RateLimited or raised ServiceUnavailable.
C10_StateClearedAfterCall ==
    (conv_pc = "idle" /\ conv_last.final) =>
        /\ conv_last.ai \in ({Returned(c) : c \in Contents} \cup {RateLimited, ServiceUnavailable})
        /\ conv_last.user_id \notin DOMAIN chat_state

C10_Witness ==
    /\ conv_pc = "idle"
    /\ conv_last.final
    /\ conv_last.ai = RateLimited
    /\ conv_last.user_id = "default_user"
    /\ "default_user" \notin DOMAIN chat_state
    /\ "u1" \in DOMAIN chat_state


(***************************************************************************)
(* Properties of the conversation's failure handling (SpecConv).           *)
(***************************************************************************)
\* C11: when safe_perplexity_call ends the conversation's call with a
\* failure (rate limited or service unavailable), the handler does not let
\* the failure out: it returns a normal response whose text is the apology.
C11_FailureBecomesApology ==
    (conv_last.final /\ conv_last.ai.kind = "raise")
        => /\ conv_last.error = ""
           /\ conv_last.response = "Sorry, I couldn't generate the itinerary at this time."

C11_Witness ==
    /\ conv_last.final
    /\ conv_last.ai.kind = "raise"
    /\ conv_last.ai.status = 429
    /\ conv_last.error = ""
    /\ conv_last.response = "Sorry, I couldn't generate the itinerary at this time."


\* The user whose message the step from the current state to the next
\* handles: the handler's user while the call runs, else the user of the
\* message that the step receives.
HandledUser ==
    IF conv_pc = "calling" THEN conv_user
    ELSE IF conv_pc' = "calling" THEN conv_user'
    ELSE conv_last'.user_id

\* C12: no step of the handler of a message for user A creates, modifies
\* or deletes the stored state of another user B, however the messages of
\* the users interleave.
C12_OtherUsersUntouched ==
    [][\A b \in DOMAIN chat_state \cup DOMAIN chat_state' :
          b # HandledUser =>
             /\ b \in DOMAIN chat_state
             /\ b \in DOMAIN chat_state'
             /\ chat_state'[b] = chat_state[b]]_vars

\* A's conversation has just been completed and cleared while B's state,
\* two slots into its own conversation, is still stored.
C12_Witness ==
    /\ conv_last.final
    /\ conv_last.user_id = "u1"
    /\ "u1" \notin DOMAIN chat_state
    /\ "default_user" \in DOMAIN chat_state
    /\ DOMAIN chat_state["default_user"] = {Key(1), Key(2)}


(***************************************************************************)
(* Properties of the plain chat endpoint (SpecChat).                       *)
(***************************************************************************)
Blank(query) == \A i \in 1..Len(query) : query[i] \in {" ", "\t", "\n"}

\* text is query without its leading and its trailing whitespace.
TrimmedOf(query, text) ==
    \E a \in 1..Len(query), b \in 1..Len(query) :
       /\ a <= b
       /\ text = SubSeq(query, a, b)
       /\ ~Blank(<<query[a]>>) /\ ~Blank(<<query[b]>>)
       /\ Blank(SubSeq(query, 1, a - 1))
       /\ Blank(SubSeq(query, b + 1, Len(query)))

\* C13: a query that is empty or all whitespace gets the empty reply and
\* safe_perplexity_call is never invoked for it; for any other query
\* safe_perplexity_call is invoked exactly once, with the trimmed query.
C13_BlankQueryNoCall ==
    \A r \in Requests :
       /\ chat_pc[r] \in {"none", "queued"} => chat_calls[r] = <<>>
       /\ chat_pc[r] \in {"running", "done"} =>
             IF Blank(chat_query[r])
               THEN /\ chat_pc[r] = "done"
                    /\ chat_calls[r] = <<>>
                    /\ chat_ai[r].kind = "none"
                    /\ chat_result[r] = [kind |-> "reply", status |-> 200, value |-> ""]
               ELSE /\ Len(chat_calls[r]) = 1
                    /\ TrimmedOf(chat_query[r], chat_calls[r][1])

\* A whitespace-only query has been answered without a call, and the call
\* for a padded query has finished, made once with the trimmed text.
C13_Witness ==
    /\ chat_pc["r1"] = "done"
    /\ chat_query["r1"] = <<"\t", "\n">>
    /\ chat_calls["r1"] = <<>>
    /\ chat_result["r1"].value = ""
    /\ chat_pc["r2"] = "done"
    /\ chat_query["r2"] = <<" ", "H", " ", "i", "\n">>
    /\ chat_calls["r2"] = << <<"H", " ", "i">> >>
    /\ chat_result["r2"].kind = "reply"

\* C14: a failure of safe_perplexity_call leaves the plain chat handler
\* as an error of the same kind: rate limited as 429, service unavailable
\* as 500, never one for the other, and never a reply.
C14_FailurePropagates ==
    \A r \in Requests :
       (chat_pc[r] = "done" /\ chat_ai[r].kind = "raise") =>
          /\ chat_result[r].kind = "raise"
          /\ chat_ai[r].status = 429 => chat_result[r].status = 429
          /\ chat_ai[r].status = 500 => chat_result[r].status = 500
          /\ chat_ai[r].status \in {429, 500}

C14_Witness ==
    \E r \in Requests :
       /\ chat_pc[r] = "done"
       /\ chat_ai[r].kind = "raise" /\ chat_ai[r].status = 429
       /\ chat_result[r].kind = "raise" /\ chat_result[r].status = 429

\* C17: while the handler of one request is in a backoff sleep, the event
\* loop can still start the handler of another request that is waiting.
C17_SleepLeavesLoopFree ==
    \A r \in Requests, d \in Requests :
       (chat_pc[r] = "running" /\ rc_pc = "sleeping" /\ chat_pc[d] = "queued")
          => ENABLED ChatStart(d)


(***************************************************************************)
(* Further properties of plan_trip and safe_itinerary_call (SpecPlan).     *)
(***************************************************************************)
LandmarksIn(city) == <<"Explore iconic landmarks in ", city>>
Cuisine == <<"Sample local cuisine at a recommended spot">>
Museum  == <<"Visit a museum, gallery, or cultural center">>
Walk    == <<"Walk through scenic neighborhoods or parks">>

\* C15: in the fallback itinerary the day with zero-based index i has the
\* activities landmarks, cuisine, museum when i is even and cuisine,
\* museum, walk when i is odd, and every summary is "Discover highlights
\* of {city}".
C15_FallbackActivitiesAlternate ==
    (plan_pc = "done" /\ plan_result.kind = "response" /\ plan_result.origin = "fallback") =>
        \A n \in 1..Len(plan_result.value.days) :
           LET d == plan_result.value.days[n]
               i == n - 1
           IN  /\ d.summary = <<"Discover highlights of ", Strip(plan_raw.city)>>
               /\ i % 2 = 0 =>
                     d.activities = <<LandmarksIn(Strip(plan_raw.city)), Cuisine, Museum>>
               /\ i % 2 = 1 => d.activities = <<Cuisine, Museum, Walk>>

C15_Witness ==
    /\ plan_pc = "done"
    /\ plan_result.kind = "response" /\ plan_result.origin = "fallback"
    /\ Len(plan_result.value.days) = 4
    /\ plan_result.value.days[1].activities[1] = <<"Explore iconic landmarks in ", <<"R", "o", "m", "e">> >>
    /\ plan_result.value.days[4].activities[3] = <<"Walk through scenic neighborhoods or parks">>

\* C16: safe_itinerary_call sends exactly one external request, never
\* enters the retry loop or a backoff sleep, and whenever that request
\* fails, with a rate-limit error too, it raises the 500 failure, never 429.
C16_ItinerarySingleAttempt ==
    /\ plan_pc \in {"idle", "rejected", "validated"} => it_requests = 0
    /\ plan_pc \in {"called", "done"} =>
          /\ it_requests = 1
          /\ rc_pc = "idle" /\ rc_trace = <<>>
          /\ plan_outcome.k # "content" =>
                /\ plan_ai.kind = "raise"
                /\ plan_ai.status = 500
                /\ plan_ai.value = "Failed to generate travel itinerary"

C16_Witness ==
    /\ plan_pc = "called"
    /\ it_requests = 1
    /\ plan_outcome.k = "raise"
    /\ plan_outcome.msg = <<"Error code: ", "429">>
    /\ plan_ai.kind = "raise" /\ plan_ai.status = 500

\* C18: a plan_trip invocation that takes the fallback path for the same
\* city, start_date and end_date as an earlier one returns the identical
\* itinerary, whatever made either fall back; and once the except block
\* is entered the fallback is returned, never an error.
C18_FallbackDependsOnRequestOnly ==
    /\ (plan_pc = "done" /\ fallbacks > 0) =>
          plan_result.kind = "response" /\ plan_result.origin = "fallback"
    /\ ( /\ plan_pc = "done"
         /\ plan_result.kind = "response" /\ plan_result.origin = "fallback"
         /\ fallback_memo # None
         /\ fallback_memo.req = plan_req )
          => plan_result.value = fallback_memo.value

\* The same request fell back after an invalid AI text although the
\* remembered fallback followed a failed call.
C18_Witness ==
    /\ plan_pc = "done"
    /\ plan_result.kind = "response" /\ plan_result.origin = "fallback"
    /\ fallback_memo # None
    /\ fallback_memo.req = plan_req
    /\ fallback_memo.exc = "HTTPException"
    /\ plan_ai.kind = "return"
    /\ Len(plan_result.value.days) = 2


(***************************************************************************)
(* Further properties of safe_perplexity_call (SpecRetry).                 *)
(***************************************************************************)
\* C19: an error that is not a rate-limit error, on an attempt that is not
\* the last, does not end the call: the next thing the call does is the
\* request of the next attempt, with no sleep in between; and every sleep
\* directly follows a rate-limit error on an attempt that is not the last.
C19_OtherErrorRetriesAtOnce ==
    \A i \in 1..Len(rc_trace) :
       LET e == rc_trace[i]
       IN  /\ e.ev = "sleep" =>
                 /\ i > 1
                 /\ rc_trace[i - 1].ev = "request"
                 /\ RateLimitFailure(rc_trace[i - 1].outcome)
                 /\ rc_trace[i - 1].attempt = e.attempt
                 /\ e.attempt < rc_retries - 1
           /\ (e.ev = "request" /\ OtherFailure(e.outcome) /\ e.attempt < rc_retries - 1) =>
                 IF i < Len(rc_trace)
                   THEN /\ rc_trace[i + 1].ev = "request"
                        /\ rc_trace[i + 1].attempt = e.attempt + 1
                   ELSE /\ rc_pc = "attempt"
                        /\ rc_attempt = e.attempt + 1
                        /\ rc_result.kind = "none"

\* A connection error on the first of three attempts was followed at once
\* by the second request, whose rate-limit error was followed by a sleep.
C19_Witness ==
    /\ rc_retries = 3
    /\ Len(rc_trace) = 3
    /\ rc_trace[1].ev = "request" /\ rc_trace[1].outcome.k = "raise"
    /\ rc_trace[1].outcome.msg = <<"Connection error.">>
    /\ rc_trace[2].ev = "request" /\ rc_trace[2].attempt = 1
    /\ rc_trace[3].ev = "sleep"


(***************************************************************************)
(* Further properties of the conversation (SpecConv).                      *)
(***************************************************************************)
\* The slots, in the fixed order, that the state does not hold.
AbsentSlots(state) == {i \in 1..NumSlots : Key(i) \notin DOMAIN state}

\* C20: whatever slots a message supplies, if a slot is absent from the
\* user's state after the merge, the response is the question of the
\* first absent slot in the fixed order, no AI call is made and the state
\* is kept; if none is absent (as when a user without state supplies all
\* ten at once) the AI call is dispatched by that message.
C20_FirstAbsentSlotAsked ==
    [][conv_pc = "idle" =>
          LET u      == HandledUser
              absent == AbsentSlots(chat_state'[u])
          IN  /\ u \in DOMAIN chat_state'
              /\ IF absent # {}
                   THEN /\ conv_pc' = "idle"
                        /\ rc_pc' = "idle" /\ rc_trace' = <<>>
                        /\ ~conv_last'.final
                        /\ \E i \in absent :
                              /\ \A j \in absent : i <= j
                              /\ conv_last'.response = Question(i)
                   ELSE /\ conv_pc' = "calling"
                        /\ conv_user' = u
                        /\ rc_pc' = "attempt" /\ rc_caller' = "conv"]_vars

\* The user answered slots 1 and 2 and then slot 4: the question of slot 3
\* is returned, and the state is kept.
C20_Witness ==
    /\ conv_pc = "idle" /\ rc_pc = "idle"
    /\ conv_last.user_id = "u1" /\ ~conv_last.final
    /\ "u1" \in DOMAIN chat_state
    /\ AbsentSlots(chat_state["u1"]) = {3} \cup (5..NumSlots)
    /\ conv_last.response = Question(3)


(***************************************************************************)
(* Properties of the merge of a message into the state (SpecMerge).        *)
(***************************************************************************)
\* C21: the merge of a message changes only the slots for which the
\* message supplies a value that is not null: each of them takes the value
\* supplied, over an earlier answer too, and every slot for which the
\* message supplies null keeps its value or stays absent.
C21_MergeLatestWins ==
    [][conv_pc = "idle" =>
          LET u      == HandledUser
              before == IF u \in DOMAIN chat_state THEN chat_state[u] ELSE EmptyDict
              after  == chat_state'[u]
          IN  \A i \in 1..NumSlots :
                 IF chat_input'[Key(i)] # Null
                   THEN /\ Key(i) \in DOMAIN after
                        /\ after[Key(i)] = chat_input'[Key(i)]
                   ELSE /\ Key(i) \in DOMAIN after <=> Key(i) \in DOMAIN before
                        /\ Key(i) \in DOMAIN before => after[Key(i)] = before[Key(i)]]_vars

\* The last message gave the empty string for slot 1 and nothing for slot
\* 2: slot 1 holds the empty string and slot 2 still holds its answer.
C21_Witness ==
    /\ "u1" \in DOMAIN chat_state
    /\ chat_input["day"] = "" /\ chat_input["location"] = Null
    /\ DOMAIN chat_state["u1"] = {"day", "location"}
    /\ chat_state["u1"]["day"] = ""
    /\ chat_state["u1"]["location"] = "a"


(***************************************************************************)
(* Properties of the AI path of plan_trip (SpecPlan).                      *)
(***************************************************************************)
\* The call returned a text that is JSON and passes the schema.
EmittedValid ==
    /\ plan_outcome.k = "content"
    /\ plan_outcome.content # None
    /\ plan_outcome.content.json
    /\ ItineraryOk(plan_outcome.content.data)

\* C22: when the call returns a text that parses as JSON and passes the
\* schema, plan_trip returns that itinerary as emitted (city, dates and
\* each day's number, date, summary and activities) and builds no
\* fallback; a fallback is returned only when the call, the parse or the
\* validation failed.
C22_ValidAiItineraryReturned ==
    plan_pc = "done" =>
       /\ EmittedValid =>
             LET emitted == plan_outcome.content.data
                 got     == plan_result.value
             IN  /\ plan_result.kind = "response" /\ plan_result.origin = "ai"
                 /\ fallbacks = 0
                 /\ got.city = emitted.city.v
                 /\ got.start_date = emitted.start_date.v
                 /\ got.end_date = emitted.end_date.v
                 /\ Len(got.days) = Len(emitted.days.v)
                 /\ \A i \in 1..Len(got.days) :
                       /\ got.days[i].day = emitted.days.v[i].day.v
                       /\ got.days[i].date = emitted.days.v[i].date.v
                       /\ got.days[i].summary = emitted.days.v[i].summary.v
                       /\ Len(got.days[i].activities) = Len(emitted.days.v[i].activities.v)
                       /\ \A j \in 1..Len(got.days[i].activities) :
                             got.days[i].activities[j] = emitted.days.v[i].activities.v[j].v
       /\ (fallbacks > 0 \/ (plan_result.kind = "response" /\ plan_result.origin = "fallback"))
             => ~EmittedValid

\* The model numbered the three days from 2 and the response says so.
C22_Witness ==
    /\ plan_pc = "done"
    /\ EmittedValid
    /\ plan_result.kind = "response" /\ plan_result.origin = "ai"
    /\ fallbacks = 0
    /\ Len(plan_result.value.days) = 3
    /\ plan_result.value.days[1].day = 2
    /\ plan_result.value.days[3].activities[3] = <<"Activity 3">>


(***************************************************************************)
(* The single downstream call of a conversation (SpecConv).                *)
(***************************************************************************)
\* While no handler runs every stored state lacks a slot; while the
\* handler is in its call the state of its user holds all ten.
C23_State ==
    /\ conv_pc = "idle" =>
          /\ rc_pc = "idle"
          /\ \A u \in DOMAIN chat_state : AbsentSlots(chat_state[u]) # {}
    /\ conv_pc = "calling" =>
          /\ rc_pc # "idle" /\ rc_caller = "conv"
          /\ conv_user \in DOMAIN chat_state
          /\ AbsentSlots(chat_state[conv_user]) = {}

\* safe_perplexity_call is entered only by a message step that leaves all
\* ten slots present, and once entered it is not entered again before the
\* handler has returned.
C23_Step ==
    /\ (rc_pc = "idle" /\ rc_pc' # "idle") =>
          /\ conv_pc = "idle" /\ conv_pc' = "calling"
          /\ AbsentSlots(chat_state'[conv_user']) = {}
          /\ rc_trace' = <<>>
    /\ (rc_pc # "idle" /\ rc_pc' = "idle") => (conv_pc = "calling" /\ conv_pc' = "idle")
    /\ (rc_pc # "idle" /\ rc_pc' # "idle") =>
          /\ conv_pc' = "calling" /\ conv_user' = conv_user
          /\ Len(rc_trace') >= Len(rc_trace)

\* C23: in the conversation safe_perplexity_call is invoked only by a
\* message after whose merge all ten slots are present, once for that
\* message, and whenever no handler is executing every stored state is
\* incomplete: a complete state never stays between messages.
C23_SingleCallWhenComplete == []C23_State /\ [][C23_Step]_vars

\* The handler of u1 is in the backoff of its call, all ten slots present,
\* while the other user's conversation is two answers in.
C23_Witness ==
    /\ conv_pc = "calling" /\ conv_user = "u1"
    /\ rc_pc = "sleeping"
    /\ AbsentSlots(chat_state["u1"]) = {}
    /\ "default_user" \in DOMAIN chat_state
    /\ AbsentSlots(chat_state["default_user"]) = 3..NumSlots


(***************************************************************************)
(* Termination and resources of safe_perplexity_call (SpecRetryFair).      *)
(***************************************************************************)
\* With retries >= 1: at most retries requests and retries - 1 sleeps; no
\* request follows a success; the call ends with the content of its first
\* success, with the 429 failure or with the 500 "temporarily unavailable"
\* failure, never with the trailing error.  With retries <= 0 it ends with
\* the trailing error and sends nothing.
C24_Bounded ==
    LET reqs == RequestsOf(rc_trace)
    IN  /\ (rc_pc # "idle" /\ rc_retries >= 1) =>
              /\ Len(reqs) <= rc_retries
              /\ Len(SleepsOf(rc_trace)) <= rc_retries - 1
              /\ \A i \in 1..Len(reqs) : Success(reqs[i].outcome) => i = Len(reqs) /\ rc_pc = "done"
              /\ rc_pc = "done" =>
                    /\ Len(reqs) >= 1
                    /\ \/ /\ rc_result.kind = "return"
                          /\ Success(reqs[Len(reqs)].outcome)
                          /\ rc_result.value = reqs[Len(reqs)].outcome.content
                       \/ /\ rc_result.kind = "raise" /\ rc_result.status = 429
                          /\ rc_result.value = "API rate limit exceeded. Please try again later."
                          /\ ~Success(reqs[Len(reqs)].outcome)
                       \/ /\ rc_result.kind = "raise" /\ rc_result.status = 500
                          /\ rc_result.value = "External API service temporarily unavailable. Please try again later."
                          /\ ~Success(reqs[Len(reqs)].outcome)
        /\ (rc_pc # "idle" /\ rc_retries <= 0) =>
              /\ rc_pc = "done"
              /\ rc_trace = <<>>
              /\ rc_result.kind = "raise" /\ rc_result.status = 500
              /\ rc_result.value = "Unexpected error in API service"

\* C24: for every retries >= 1 and every sequence of attempt outcomes the
\* call terminates, within retries requests and retries - 1 sleeps, with
\* the content of the first successful attempt, the rate-limit failure or
\* the unavailable failure; the trailing error is reached only with
\* retries <= 0, and then no request is made.
C24_TerminatesWithinRetries ==
    /\ []C24_Bounded
    /\ (rc_pc \in {"attempt", "sleeping"}) ~> (rc_pc = "done")

\* Three attempts: a connection error, a rate-limit error and its sleep,
\* then a connection error that ends the call with the 500 failure.
C24_Witness ==
    /\ rc_retries = 3 /\ rc_pc = "done"
    /\ Len(RequestsOf(rc_trace)) = 3
    /\ Len(SleepsOf(rc_trace)) = 1
    /\ rc_result.kind = "raise" /\ rc_result.status = 500


(***************************************************************************)
(* Progress of one conversation (SpecMerge).                               *)
(***************************************************************************)
\* The position of the question a response carries, 0 for another text.
PositionOf(response) ==
    IF \E i \in 1..NumSlots : response = Question(i)
      THEN CHOOSE i \in 1..NumSlots : response = Question(i)
      ELSE 0

\* A message step neither removes a filled slot nor moves the question
\* returned to an earlier position than the one returned before.
C25_Step ==
    conv_pc = "idle" =>
       LET u      == HandledUser
           before == IF u \in DOMAIN chat_state THEN chat_state[u] ELSE EmptyDict
       IN  /\ DOMAIN before \subseteq DOMAIN chat_state'[u]
           /\ ( /\ u \in DOMAIN chat_state
                /\ conv_last.user_id = u /\ ~conv_last.final
                /\ conv_pc' = "idle" )
                 => /\ PositionOf(conv_last.response) >= 1
                    /\ PositionOf(conv_last'.response) >= PositionOf(conv_last.response)

\* After k messages in a row that each answered the question due, at
\* least k slots are filled; the tenth such message is the completing one.
C25_Run ==
    /\ asked_run <= NumSlots
    /\ "u1" \in DOMAIN chat_state =>
          asked_run + Cardinality(AbsentSlots(chat_state["u1"])) <= NumSlots
    /\ asked_run = NumSlots => (conv_pc = "calling" \/ "u1" \notin DOMAIN chat_state)

\* C25: within one conversation the set of filled slots never shrinks from
\* one message to the next, so the question returned never moves to an
\* earlier position, and a user who answers the question due on every
\* message reaches the completing message within ten messages.
C25_ConversationAdvances == []C25_Run /\ [][C25_Step]_vars

\* Ten messages in a row each answered the question due, and the tenth
\* has dispatched the call.
C25_Witness ==
    /\ asked_run = NumSlots
    /\ conv_pc = "calling"
    /\ AbsentSlots(chat_state["u1"]) = {}

====
